---- MODULE Spec2Model ----
(***************************************************************************)
(* GPSFabricConnector (src/actions/gps/connector/fabric.py): connect()     *)
(* dispatches on the action; send_coordinates() reads latitude, longitude  *)
(* and yaw_deg from the IOProvider in three separate lookups, validates    *)
(* their presence, POSTs one JSON-RPC request and classifies the outcome.  *)
(* The IOProvider is written by another thread, one key at a time.         *)
(***************************************************************************)
EXTENDS Integers, FiniteSets, Sequences, TLC

\* ---------------------------------------------------------------- bounds
\* store updates that may interleave with the three reads of one call
MaxUpdates == 2
\* cap of the counter of earlier failed send_coordinates() calls
MaxFailures == 1

\* ----------------------------------------------------------------- state
VARIABLES
    io_provider,   \* the shared store: key -> optional value
    pc,            \* position of the dispatcher's call
    action,        \* output_interface.action of the current connect()
    latitude, longitude, yaw,   \* locals of send_coordinates()
    request,       \* the request handed to requests.post in this call
    posts,         \* requests.post calls made in this call
    reads,         \* store lookups made in this call
    sends,         \* send_coordinates() invocations made in this call
    outcome,       \* what requests.post did in this call
    ret,           \* send_coordinates(): "none", "true", "false", "raise"
    connected,     \* connect(): "none", "returned", "raised"
    failures,      \* earlier send_coordinates() calls that did not return True
    held,          \* triples the store held since this call's first read
    updates        \* store updates since this call's first read

vars == <<io_provider, pc, action, latitude, longitude, yaw, request, posts,
          reads, sends, outcome, ret, connected, failures, held, updates>>

\* ------------------------------------------------------- optional values
\* Python None and a present number (0 is a present number)
None == [some |-> FALSE, val |-> 0]

Some(n) == [some |-> TRUE, val |-> n]

Coords == {0, 1}

Optional == {None} \cup {Some(n) : n \in Coords}

Keys == {"latitude", "longitude", "yaw_deg"}

\* ---------------------------------------------------------- configuration
fabric_endpoint == "http://localhost:8545"

request_timeout == 10

\* GPSAction values; only SHARE_LOCATION is handled by this connector
SHARE_LOCATION == "share location"

GPSAction == {SHARE_LOCATION, "other action"}

\* ------------------------------------------------------------- responses
\* A JSON value nested in the body, named by its text.
ResultValues == {"null", "false", "0", "\"\"", "true", "1"}

ErrorValues == {"null", "\"x\"", "{}", "{\"code\":-32000,\"message\":\"x\"}"}

Absent == "absent"

\* Python truthiness of a parsed JSON value
Truthy(v) == v \notin {"null", "false", "0", "\"\"", "[]", "{}"}

\* parsed JSON value is a dict (has .get)
IsDict(v) == v \in {"{}", "{\"code\":-32000,\"message\":\"x\"}"}

\* A response body: kind "invalid" is text that is not JSON; for an object
\* `has` is its key set and error/result the values of those keys; for a
\* string or an array `has` is what the Python `in` operator finds in it.
Body(k, h, e, r) == [kind |-> k, has |-> h, error |-> e, result |-> r]

ScalarBodies == {Body(k, {}, Absent, Absent) : k \in {"invalid", "null", "number"}}

ContainerBodies ==
    {Body("string", h, Absent, Absent) : h \in {{}, {"error"}, {"result"}}}
    \cup {Body("array", h, Absent, Absent) : h \in {{}, {"error"}}}

ObjectBodies ==
    {Body("object",
          (IF e = Absent THEN {} ELSE {"error"}) \cup (IF r = Absent THEN {} ELSE {"result"}),
          e, r) : e \in ErrorValues \cup {Absent}, r \in ResultValues \cup {Absent}}

Bodies == ScalarBodies \cup ContainerBodies \cup ObjectBodies

Statuses == {101, 200, 299, 304, 399, 400, 599, 600}

NoBody == Body("invalid", {}, Absent, Absent)

NoOutcome == [kind |-> "none", status |-> 0, body |-> NoBody]

\* what requests.post() can do: raise Timeout, ConnectionError, another
\* RequestException, or return a response
Outcomes ==
    {[kind |-> k, status |-> 0, body |-> NoBody] : k \in {"timeout", "connection", "other"}}
    \cup {[kind |-> "response", status |-> s, body |-> b] : s \in Statuses, b \in Bodies}

\* -------------------------------------------------------------- requests
NoRequest ==
    [url |-> "", method |-> "", params |-> <<>>, id |-> 0, jsonrpc |-> "",
     content_type |-> "", timeout |-> 0]

\* mutant: latitude and longitude exchanged in the params object
BuildRequestSwapped(lat, lon, y) ==
    [url |-> fabric_endpoint,
     method |-> "omp2p_shareStatus",
     params |-> <<[latitude |-> lon.val, longitude |-> lat.val, yaw |-> y.val]>>,
     id |-> 1,
     jsonrpc |-> "2.0",
     content_type |-> "application/json",
     timeout |-> request_timeout]

BuildRequest(lat, lon, y) ==
    [url |-> fabric_endpoint,
     method |-> "omp2p_shareStatus",
     params |-> <<[latitude |-> lat.val, longitude |-> lon.val, yaw |-> y.val]>>,
     id |-> 1,
     jsonrpc |-> "2.0",
     content_type |-> "application/json",
     timeout |-> request_timeout]

\* ------------------------------------------------------- pure decisions
\* mutant: every action is sent
ShouldSendAlways(a) == TRUE

ShouldSend(a) == a = SHARE_LOCATION

\* mutant: the earlier check, which aborted only when all three were missing
CoordinatesMissingAll(lat, lon, y) == lat = None /\ lon = None /\ y = None

CoordinatesMissing(lat, lon, y) == lat = None \/ lon = None \/ y = None

\* mutant: only server errors count as failures
ResponseOkBelow500(status) == ~(500 <= status /\ status < 600)

\* requests.Response.ok: raise_for_status() raises for 400 <= status < 600
ResponseOk(status) == ~(400 <= status /\ status < 600)

\* lines 120-142: "true", "false", or "raise" when an exception that is
\* not a requests.RequestException escapes
Interpret(body) ==
    IF body.kind = "invalid" THEN "false"
    ELSE IF body.kind \in {"null", "number"} THEN "raise"
    ELSE IF "error" \in body.has
         THEN IF body.kind = "object" /\ IsDict(body.error) THEN "false" ELSE "raise"
    ELSE IF "result" \in body.has
         THEN IF body.kind # "object" THEN "raise"
              ELSE IF Truthy(body.result) THEN "true" ELSE "false"
    ELSE "false"

\* mutant: the connector latches an earlier failure and gives up
ClassifyLatched(o) ==
    IF failures > 0 THEN "false"
    ELSE IF o.kind \in {"timeout", "connection", "other"} THEN "false"
    ELSE IF ~ResponseOk(o.status) THEN "false"
    ELSE Interpret(o.body)

Classify(o) ==
    IF o.kind \in {"timeout", "connection", "other"} THEN "false"
    ELSE IF ~ResponseOk(o.status) THEN "false"
    ELSE Interpret(o.body)

\* ------------------------------------------------------------ the store
get_dynamic_variable(s, k) == s[k]

\* mutant: the latitude is looked up under the longitude's key
ReadLatitudeWrongKey(s) == get_dynamic_variable(s, "longitude")

ReadLatitude(s) == get_dynamic_variable(s, "latitude")

ReadLongitude(s) == get_dynamic_variable(s, "longitude")

ReadYaw(s) == get_dynamic_variable(s, "yaw_deg")

Triple(s) == <<s["latitude"], s["longitude"], s["yaw_deg"]>>

\* ------------------------------------------------------------ behaviour
Init ==
    /\ io_provider \in [Keys -> Optional]
    /\ pc = "idle"
    /\ action = "other action"
    /\ latitude = None /\ longitude = None /\ yaw = None
    /\ request = NoRequest
    /\ posts = 0 /\ reads = 0 /\ sends = 0
    /\ outcome = NoOutcome
    /\ ret = "none"
    /\ connected = "none"
    /\ failures = 0
    /\ held = {}
    /\ updates = 0

Reading == pc \in {"get_latitude", "get_longitude", "get_yaw"}

\* another thread writes one key of the store; a write after the call's last
\* read is not observed by the call and is taken once the call is over
add_dynamic_variable(k, v) ==
    /\ pc = "idle" \/ Reading
    /\ io_provider[k] # v
    /\ Reading => updates < MaxUpdates
    /\ io_provider' = [io_provider EXCEPT ![k] = v]
    /\ held' = IF Reading THEN held \cup {Triple(io_provider')} ELSE held
    /\ updates' = IF Reading THEN updates + 1 ELSE updates
    /\ UNCHANGED <<pc, action, latitude, longitude, yaw, request, posts, reads,
                   sends, outcome, ret, connected, failures>>

\* connect(), lines 65-69: the dispatch on the action
connect(a) ==
    /\ pc = "idle"
    /\ action' = a
    /\ IF ShouldSend(a)
       THEN /\ sends' = 1
            /\ pc' = "get_latitude"
            /\ connected' = "none"
            /\ held' = {Triple(io_provider)}
       ELSE /\ sends' = 0
            /\ pc' = "done"
            /\ connected' = "returned"
            /\ held' = {}
    /\ UNCHANGED <<io_provider, latitude, longitude, yaw, request, posts, reads,
                   outcome, ret, updates, failures>>

get_latitude ==
    /\ pc = "get_latitude"
    /\ latitude' = ReadLatitude(io_provider)
    /\ reads' = reads + 1
    /\ pc' = "get_longitude"
    /\ UNCHANGED <<io_provider, action, longitude, yaw, request, posts, sends,
                   outcome, ret, connected, failures, held, updates>>

get_longitude ==
    /\ pc = "get_longitude"
    /\ longitude' = ReadLongitude(io_provider)
    /\ reads' = reads + 1
    /\ pc' = "get_yaw"
    /\ UNCHANGED <<io_provider, action, latitude, yaw, request, posts, sends,
                   outcome, ret, connected, failures, held, updates>>

get_yaw ==
    /\ pc = "get_yaw"
    /\ yaw' = ReadYaw(io_provider)
    /\ reads' = reads + 1
    /\ pc' = "validate"
    /\ UNCHANGED <<io_provider, action, latitude, longitude, request, posts,
                   sends, outcome, ret, connected, failures, held, updates>>

\* lines 89-106: the presence check; the request body is built from the locals
validate ==
    /\ pc = "validate"
    /\ IF CoordinatesMissing(latitude, longitude, yaw)
       THEN /\ ret' = "false"
            /\ connected' = "returned"
            /\ request' = request
            /\ pc' = "done"
       ELSE /\ request' = BuildRequest(latitude, longitude, yaw)
            /\ pc' = "post"
            /\ UNCHANGED <<ret, connected>>
    /\ UNCHANGED <<io_provider, action, latitude, longitude, yaw, posts, reads,
                   sends, outcome, failures, held, updates>>

\* lines 97-155: the single requests.post and the classification of what it did
post(o) ==
    /\ pc = "post"
    /\ posts' = posts + 1
    /\ outcome' = o
    /\ ret' = Classify(o)
    /\ connected' = IF ret' = "raise" THEN "raised" ELSE "returned"
    /\ pc' = "done"
    /\ held' = {}
    /\ updates' = 0
    /\ UNCHANGED <<io_provider, action, latitude, longitude, yaw, request, reads,
                   sends, failures>>

\* control is back in the dispatcher: the call frame is gone
return ==
    /\ pc = "done"
    /\ pc' = "idle"
    /\ failures' = IF sends = 1 /\ ret # "true" /\ failures < MaxFailures
                   THEN failures + 1 ELSE failures
    /\ latitude' = None /\ longitude' = None /\ yaw' = None
    /\ request' = NoRequest
    /\ posts' = 0 /\ reads' = 0 /\ sends' = 0
    /\ outcome' = NoOutcome
    /\ ret' = "none"
    /\ connected' = "none"
    /\ held' = {}
    /\ updates' = 0
    /\ UNCHANGED <<io_provider, action>>

Next ==
    \/ \E k \in Keys, v \in Optional : add_dynamic_variable(k, v)
    \/ \E a \in GPSAction : connect(a)
    \/ get_latitude
    \/ get_longitude
    \/ get_yaw
    \/ validate
    \/ \E o \in Outcomes : post(o)
    \/ return

Spec == Init /\ [][Next]_vars

TypeOK ==
    /\ io_provider \in [Keys -> Optional]
    /\ pc \in {"idle", "get_latitude", "get_longitude", "get_yaw", "validate", "post", "done"}
    /\ ret \in {"none", "true", "false", "raise"}
    /\ failures \in 0..MaxFailures

\* ============================================================ properties
Sent == request.params[1]

\* C1: whenever at least one of latitude, longitude, yaw_deg is None,
\* send_coordinates() returns False and no request is built or posted; the
\* POST is never reached with a missing value.
C1_MissingAborts ==
    /\ (pc = "done" /\ sends = 1
        /\ (latitude = None \/ longitude = None \/ yaw = None))
           => (ret = "false" /\ posts = 0 /\ request = NoRequest /\ outcome = NoOutcome)
    /\ pc = "post" => (latitude # None /\ longitude # None /\ yaw # None)

C1_Witness ==
    /\ pc = "done" /\ sends = 1
    /\ latitude # None /\ longitude = None /\ yaw # None
    /\ ret = "false" /\ posts = 0

\* C2: with three present values L, G, Y (0 included) a call makes exactly
\* one POST, to the configured endpoint, with method omp2p_shareStatus and
\* params[0] = {latitude: L, longitude: G, yaw: Y}; whatever that POST
\* does, there is no second one in the call.
C2_ExactlyOnePost ==
    /\ posts <= 1
    /\ (pc = "done" /\ sends = 1
        /\ latitude # None /\ longitude # None /\ yaw # None)
           => /\ posts = 1
              /\ outcome \in Outcomes
              /\ request.url = "http://localhost:8545"
              /\ request.method = "omp2p_shareStatus"
              /\ Len(request.params) = 1
              /\ Sent = [latitude |-> latitude.val, longitude |-> longitude.val,
                         yaw |-> yaw.val]

C2_Witness ==
    /\ pc = "done" /\ posts = 1
    /\ latitude = Some(0) /\ longitude = Some(1) /\ yaw = Some(0)
    /\ Sent = [latitude |-> 0, longitude |-> 1, yaw |-> 0]
    /\ outcome.kind = "timeout"

\* C3 (as stated): with any status outside 200-299 send_coordinates()
\* returns False without interpreting the body: it returns False even when
\* the body is {"result": true}.
C3_Non2xxReturnsFalse ==
    (pc = "done" /\ outcome.kind = "response"
     /\ ~(200 <= outcome.status /\ outcome.status <= 299)
     /\ outcome.body = Body("object", {"result"}, Absent, "true"))
        => ret = "false"

\* C3 (amended): every status from 400 to 599 makes send_coordinates()
\* return False without interpreting the body.
C3_ErrorStatusReturnsFalse ==
    (pc = "done" /\ outcome.kind = "response"
     /\ 400 <= outcome.status /\ outcome.status <= 599)
        => ret = "false"

C3_Witness ==
    /\ pc = "done" /\ outcome.kind = "response" /\ outcome.status = 400
    /\ outcome.body = Body("object", {"result"}, Absent, "true")
    /\ ret = "false"

\* C4: connect() completes normally for every action, store content,
\* transport outcome and response.
C4_ConnectNeverRaises ==
    pc = "done" => connected = "returned"

\* C5: a successful status and a parsed body with an "error" field make
\* send_coordinates() return False, whatever "result" holds.
C5_ErrorFieldReturnsFalse ==
    (pc = "done" /\ outcome.kind = "response"
     /\ 200 <= outcome.status /\ outcome.status <= 299
     /\ outcome.body.kind = "object" /\ "error" \in outcome.body.has)
        => ret = "false"

\* C6: with status 200 and a parseable body without an "error" field,
\* send_coordinates() returns True when the body has a truthy "result"
\* field and False otherwise.
C6_TrueIffTruthyResult ==
    (pc = "done" /\ outcome.kind = "response" /\ outcome.status = 200
     /\ outcome.body.kind # "invalid"
     /\ ~(outcome.body.kind = "object" /\ "error" \in outcome.body.has))
        => ret = IF outcome.body.kind = "object" /\ outcome.body.result \in {"true", "1"}
                 THEN "true" ELSE "false"

\* C7: an action other than "share location" reads nothing from the store
\* and posts nothing; send_coordinates() runs exactly for "share location".
C7_OnlyShareLocationSends ==
    /\ (pc # "idle" /\ action # "share location")
           => (pc = "done" /\ sends = 0 /\ reads = 0 /\ posts = 0 /\ request = NoRequest)
    /\ (pc # "idle" /\ action = "share location") => sends = 1

C7_Witness ==
    /\ pc = "done" /\ action = "other action"
    /\ sends = 0 /\ reads = 0 /\ posts = 0
    /\ io_provider = [k \in Keys |-> Some(1)]

\* C8: each of the eight error kinds ends in the return value False.
MissingCoordinate == latitude = None \/ longitude = None \/ yaw = None

TransportError == outcome.kind \in {"timeout", "connection", "other"}

Status2xx == outcome.kind = "response" /\ 200 <= outcome.status /\ outcome.status <= 299

HttpStatusError ==
    outcome.kind = "response" /\ 400 <= outcome.status /\ outcome.status <= 599

JsonParseError == Status2xx /\ outcome.body.kind = "invalid"

RpcError == Status2xx /\ outcome.body.kind = "object" /\ "error" \in outcome.body.has

NoResult ==
    /\ Status2xx /\ outcome.body.kind # "invalid" /\ ~RpcError
    /\ ~(outcome.body.kind = "object" /\ outcome.body.result \in {"true", "1"})

C8_ErrorKindsReturnFalse ==
    (pc = "done" /\ sends = 1
     /\ (MissingCoordinate \/ TransportError \/ HttpStatusError \/ JsonParseError
         \/ RpcError \/ NoResult))
        => ret = "false"

\* C9: a call whose reads find three values and whose POST is answered by
\* 200 {"result": true} returns True after any earlier failures, and the
\* values it sends were in the store during this call.
C9_CallsIndependent ==
    /\ (pc = "done" /\ sends = 1
        /\ latitude # None /\ longitude # None /\ yaw # None
        /\ outcome = [kind |-> "response", status |-> 200,
                      body |-> Body("object", {"result"}, Absent, "true")])
           => ret = "true"
    /\ pc = "post" =>
           \E t \in held, u \in held, w \in held :
               /\ t[1] # None /\ u[2] # None /\ w[3] # None
               /\ Sent = [latitude |-> t[1].val, longitude |-> u[2].val, yaw |-> w[3].val]

C9_Witness ==
    /\ pc = "done" /\ failures > 0 /\ ret = "true"
    /\ outcome.status = 200

\* C10 (as stated): the triple placed in the request is a triple the store
\* held at one single moment of the call.
C10_TripleHeldAtOneMoment ==
    pc = "post" =>
        \E t \in held :
            /\ t[1] # None /\ t[2] # None /\ t[3] # None
            /\ Sent = [latitude |-> t[1].val, longitude |-> t[2].val, yaw |-> t[3].val]

\* C10 (amended): each value placed in the request is a value the store
\* held under its own key at some moment of the call, and the values sent
\* are the values the presence check was made on.
C10_EachValueHeld ==
    pc = "post" =>
        /\ \E t \in held : t[1] # None /\ Sent.latitude = t[1].val
        /\ \E t \in held : t[2] # None /\ Sent.longitude = t[2].val
        /\ \E t \in held : t[3] # None /\ Sent.yaw = t[3].val
        /\ latitude # None /\ longitude # None /\ yaw # None
        /\ Sent = [latitude |-> latitude.val, longitude |-> longitude.val,
                   yaw |-> yaw.val]

C10_Witness ==
    /\ pc = "post" /\ updates = 2
    /\ <<latitude, longitude, yaw>> \notin held
    /\ Sent = [latitude |-> 0, longitude |-> 1, yaw |-> 0]

====
